---- MODULE Spec2Model ----
(***************************************************************************)
(* SOC Blackout synthetic data seeder (scripts/seed_data.py).              *)
(*                                                                         *)
(* Two specifications share the definitions below:                         *)
(*   SpecGen  one call of a generator (or of seed_scenario) on arguments   *)
(*            drawn at Init;                                               *)
(*   Spec     a run of main() against a datastore with arbitrary prior     *)
(*            contents.                                                    *)
(*                                                                         *)
(* Representation.                                                         *)
(*  - A document is a function from field name to value (a Python dict).   *)
(*  - A float rounded to one decimal is kept as an integer number of       *)
(*    tenths, one rounded to two decimals as an integer of hundredths.     *)
(*  - A datetime is [day, sec, us] (day ordinal, second of day,            *)
(*    microsecond); a timedelta is [days, seconds, microseconds], the      *)
(*    normal form Python keeps.                                            *)
(*  - The pseudo random source is an argument rnd = [seed, stride]: the    *)
(*    j-th draw of a call is the fraction ((seed + j*stride) % RngMod) /   *)
(*    RngMod of [0,1).  Every single draw, and (RngMod being prime) every  *)
(*    pair of draws of a call, takes every combination of values.          *)
(***************************************************************************)
EXTENDS Integers, Sequences, FiniteSets, TLC

VARIABLES
  call,      \* SpecGen: the call made, [op, time, scenario, count, rnd, tick, pattern]
  ret,       \* SpecGen: what the call returned or raised
  pc,        \* main(): where the run stands
  env,       \* which of ES_CLOUD_ID, ES_URL, ES_API_KEY are set (non-empty)
  client,    \* what get_es_client() returned
  choice,    \* the answer given at the prompt, stripped, "4" when empty
  todo,      \* the scenarios main() has still to seed
  es,        \* the datastore
  bulk,      \* the record of the helpers.bulk calls
  reported,  \* the document counts main() prints at the end
  seeded,    \* the scenarios main() has called seed_scenario for, in order
  catalog    \* the module's list HISTORICAL_INCIDENTS as it stands

vars == <<call, ret, pc, env, client, choice, todo, es, bulk, reported, seeded, catalog>>

(***************************************************************************)
(* Bounds of the model.                                                    *)
(***************************************************************************)
\* largest document count requested from a generator in SpecGen
MaxCount == 2

\* resolution of the random source: draws are multiples of 1/RngMod
RngMod == 11

\* largest number of microseconds the clock advances between two readings
MaxTick == 1

\* largest number of documents an index holds before main() starts
MaxPrior == 1

(***************************************************************************)
(* Index mappings: index name -> property name -> type.                    *)
(***************************************************************************)
MAPPINGS ==
  [ x \in {"soc-logs", "soc-metrics", "soc-incidents", "soc-actions"} |->
      CASE x = "soc-logs" ->
             ("@timestamp" :> "date") @@ ("service" :> "keyword") @@
             ("level" :> "keyword") @@ ("message" :> "text") @@
             ("host" :> "keyword") @@ ("trace_id" :> "keyword")
        [] x = "soc-metrics" ->
             ("@timestamp" :> "date") @@ ("host" :> "keyword") @@
             ("cpu_pct" :> "float") @@ ("mem_pct" :> "float") @@
             ("disk_io" :> "float") @@ ("net_in" :> "long") @@
             ("net_out" :> "long")
        [] x = "soc-incidents" ->
             ("incident_id" :> "keyword") @@ ("title" :> "text") @@
             ("root_cause" :> "text") @@ ("resolution" :> "text") @@
             ("services_affected" :> "keyword") @@ ("severity" :> "keyword") @@
             ("duration_min" :> "integer") @@ ("created_at" :> "date") @@
             ("tags" :> "keyword") @@ ("runbook" :> "text")
        [] x = "soc-actions" ->
             ("@timestamp" :> "date") @@ ("action_type" :> "keyword") @@
             ("description" :> "text") @@ ("confidence" :> "integer") @@
             ("status" :> "keyword") @@ ("incident_ref" :> "keyword") ]

\* the keys of MAPPINGS in the order a loop over the dict visits them
IndexOrder == <<"soc-logs", "soc-metrics", "soc-incidents", "soc-actions">>

IndexNames == DOMAIN MAPPINGS

(***************************************************************************)
(* Data generation constants.                                              *)
(***************************************************************************)
SERVICES ==
  << "api-gateway", "auth-service", "payment-service",
     "user-service", "notification-service", "search-service",
     "order-service", "inventory-service" >>

HOSTS ==
  << "prod-web-01", "prod-web-02", "prod-web-03",
     "prod-app-01", "prod-app-02",
     "prod-db-01", "prod-db-02",
     "prod-cache-01" >>

LOG_LEVELS_NORMAL == <<"INFO", "DEBUG", "INFO", "INFO", "WARN", "INFO">>

LOG_LEVELS_INCIDENT == <<"ERROR", "CRITICAL", "ERROR", "FATAL", "ERROR", "WARN">>

\* A template is the sequence of its literal pieces and {placeholders}.
NORMAL_MESSAGES ==
  << <<"Request processed successfully in ", "{t}", "ms">>,
     <<"Health check passed for ", "{service}">>,
     <<"Connection pool at ", "{n}", "% capacity">>,
     <<"Cache hit ratio: ", "{n}", "%">>,
     <<"Scheduled task completed: cleanup_old_sessions">>,
     <<"User authentication successful for user_id=", "{uid}">>,
     <<"Database query executed in ", "{t}", "ms">>,
     <<"Rate limiter reset for ", "{service}">> >>

ERROR_MESSAGES_BY_SCENARIO ==
  [ cpu_spike |->
      << <<"CPU throttling detected on ", "{host}", ": usage at ", "{n}", "%">>,
         <<"Thread pool exhausted on ", "{host}", ", ", "{n}", " tasks queued">>,
         <<"Request timeout after 30000ms on ", "{service}">>,
         <<"GC pause exceeded threshold: ", "{t}", "ms on ", "{host}">>,
         <<"Load balancer health check failed for ", "{host}">> >>,
    oom_crash |->
      << <<"OutOfMemoryError: Java heap space on ", "{host}">>,
         <<"Container killed by OOM killer: ", "{service}", " on ", "{host}">>,
         <<"Memory allocation failed: requested ", "{n}", "MB, available 12MB">>,
         <<"Pod ", "{service}", " restarting due to OOMKilled on ", "{host}">>,
         <<"Heap dump generated: /var/log/", "{service}", "/heap_", "{t}", ".hprof">> >>,
    cascading_failure |->
      << <<"Connection refused to ", "{service}", " from ", "{host}">>,
         <<"Circuit breaker OPEN for ", "{service}", ": 15 failures in 60s">>,
         <<"Downstream dependency ", "{service}", " unavailable, returning 503">>,
         <<"Retry exhausted for ", "{service}", " after 3 attempts">>,
         <<"Dead letter queue growing: ", "{n}", " messages pending for ", "{service}">>,
         <<"Cascading timeout: ", "{service}", " -> payment-service -> auth-service">> >> ]

(***************************************************************************)
(* Historical incidents knowledge base.                                    *)
(***************************************************************************)
\* The catalog texts are the source's, with each backquote written as an
\* apostrophe (a TLA+ string cannot hold a backquote).
HISTORICAL_INCIDENTS ==
  <<
    [ incident_id |-> "INC-001",
      title |-> "Payment service OOM crash during Black Friday surge",
      root_cause |-> "Memory leak in payment-service connection pool. The JDBC connection pool was not releasing connections on transaction timeout, leading to heap exhaustion under load.",
      resolution |-> "Patched connection pool library to v3.2.1, added connection timeout of 30s, increased heap to 4GB, and added memory-based autoscaling.",
      services_affected |-> <<"payment-service", "order-service", "api-gateway">>,
      severity |-> "critical",
      duration_min |-> 45,
      tags |-> <<"oom", "memory", "payment", "connection-pool", "black-friday">>,
      runbook |-> "When payment-service experiences OOM: 1) Check heap usage with 'kubectl top pods -n payments'. 2) If heap > 90%, restart the pod: 'kubectl rollout restart deployment/payment-service'. 3) Check connection pool metrics: 'GET /actuator/metrics/hikaricp.connections.active'. 4) If connections are not being released, apply hotfix: scale up replicas to 5 and patch connection timeout. 5) Monitor for 15 minutes. 6) If issue persists, failover to payment-service-backup." ],
    [ incident_id |-> "INC-002",
      title |-> "API Gateway CPU spike from recursive middleware loop",
      root_cause |-> "A misconfigured middleware in api-gateway caused a recursive call loop when processing requests with specific headers. CPU spiked to 100% across all gateway pods.",
      resolution |-> "Identified the faulty middleware rule via CPU profiling, rolled back to previous gateway config version, added middleware stack depth limit of 10.",
      services_affected |-> <<"api-gateway", "auth-service">>,
      severity |-> "critical",
      duration_min |-> 32,
      tags |-> <<"cpu", "api-gateway", "middleware", "recursion", "config">>,
      runbook |-> "When api-gateway CPU spikes above 95%: 1) Check recent config deployments: 'kubectl get configmap api-gateway-config -o yaml'. 2) Compare with last known good config. 3) If config changed recently, rollback: 'kubectl rollout undo deployment/api-gateway'. 4) If CPU stays high, check for recursive middleware: 'curl localhost:8080/actuator/threaddump | grep middleware'. 5) Scale up to absorb traffic while investigating." ],
    [ incident_id |-> "INC-003",
      title |-> "Cascading failure from auth-service certificate expiry",
      root_cause |-> "TLS certificate for auth-service expired at 00:00 UTC. All services depending on auth-service started failing, creating a cascade. Circuit breakers activated but the retry storms amplified the load.",
      resolution |-> "Renewed TLS certificate, restarted auth-service, then gradually reopened circuit breakers across dependent services. Added certificate expiry monitoring to prevent recurrence.",
      services_affected |-> <<"auth-service", "api-gateway", "payment-service", "user-service", "order-service">>,
      severity |-> "critical",
      duration_min |-> 67,
      tags |-> <<"cascading", "tls", "certificate", "auth", "circuit-breaker">>,
      runbook |-> "When auth-service connections are refused across multiple services: 1) Check auth-service TLS cert: 'openssl s_client -connect auth-service:443 2>/dev/null | openssl x509 -noout -dates'. 2) If cert expired, renew immediately: 'certbot renew --deploy-hook 'kubectl rollout restart deployment/auth-service''. 3) After auth is back, reset circuit breakers on dependent services one at a time, starting with api-gateway. 4) Monitor error rates for 30 minutes before declaring resolved." ],
    [ incident_id |-> "INC-004",
      title |-> "Search service latency spike from unoptimized Elasticsearch query",
      root_cause |-> "A new feature deployment included a wildcard query on a large index without proper filters, causing ES cluster CPU to saturate and search latency to spike to 15s.",
      resolution |-> "Identified the offending query via slow query log, added index filters and pagination, redeployed search-service with the fix.",
      services_affected |-> <<"search-service">>,
      severity |-> "high",
      duration_min |-> 22,
      tags |-> <<"latency", "elasticsearch", "query", "search">>,
      runbook |-> "When search-service latency exceeds 5s: 1) Check ES slow query log: 'GET /_nodes/stats/indices/search'. 2) Identify the slow query. 3) If wildcard query, add filters or convert to prefix query. 4) If cluster CPU > 90%, enable circuit breaker: 'PUT /_cluster/settings {\"transient\": {\"indices.breaker.total.limit\": \"70%\"}}'. 5) Redeploy search-service with fix." ],
    [ incident_id |-> "INC-005",
      title |-> "Database connection exhaustion on prod-db-01",
      root_cause |-> "A background job in user-service opened database connections without closing them properly. After 6 hours of running, all 200 connection slots on prod-db-01 were consumed.",
      resolution |-> "Killed the runaway background job, released stale connections, patched user-service to use connection pooling with max 20 connections per service instance.",
      services_affected |-> <<"user-service", "auth-service", "order-service">>,
      severity |-> "high",
      duration_min |-> 38,
      tags |-> <<"database", "connections", "leak", "user-service", "production">>,
      runbook |-> "When database connections are exhausted: 1) Check active connections: 'SELECT count(*) FROM pg_stat_activity WHERE state = 'active''. 2) Identify the service holding most connections: 'SELECT application_name, count(*) FROM pg_stat_activity GROUP BY application_name ORDER BY count DESC'. 3) Kill idle connections: 'SELECT pg_terminate_backend(pid) FROM pg_stat_activity WHERE state = 'idle' AND query_start < NOW() - interval '10 minutes''. 4) Restart the offending service. 5) Add connection pool limits." ],
    [ incident_id |-> "INC-006",
      title |-> "Notification service disk full causing message loss",
      root_cause |-> "Notification service log volume on prod-app-02 filled the disk to 100%. The service could not write to its message queue, causing notifications to be silently dropped.",
      resolution |-> "Cleared old logs, rotated log files, added log retention policy (7 days max, 10GB cap), added disk usage monitoring alert at 80%.",
      services_affected |-> <<"notification-service">>,
      severity |-> "medium",
      duration_min |-> 18,
      tags |-> <<"disk", "logs", "notification", "message-loss">>,
      runbook |-> "When disk usage exceeds 90% on any host: 1) Check what's consuming disk: 'du -sh /var/log/* | sort -rh | head'. 2) If logs, rotate immediately: 'logrotate -f /etc/logrotate.conf'. 3) Delete logs older than 7 days: 'find /var/log -name '*.log' -mtime +7 -delete'. 4) Restart the affected service. 5) Verify message queue is draining: 'curl localhost:8080/actuator/metrics/queue.size'." ],
    [ incident_id |-> "INC-007",
      title |-> "Cache stampede on prod-cache-01 after cold restart",
      root_cause |-> "After a planned maintenance restart of prod-cache-01, all cached data was evicted. The simultaneous cache miss storm from all services overwhelmed the database backend.",
      resolution |-> "Implemented cache warming script that pre-populates hot keys before bringing cache online. Added gradual traffic ramp-up after cache restart.",
      services_affected |-> <<"api-gateway", "search-service", "user-service", "order-service">>,
      severity |-> "high",
      duration_min |-> 25,
      tags |-> <<"cache", "stampede", "cold-start", "redis">>,
      runbook |-> "After cache restart: 1) Run cache warming script before routing traffic: 'python warm_cache.py --keys hot_keys.txt'. 2) Enable gradual traffic ramp: increase weight from 10% to 100% over 10 minutes. 3) Monitor cache hit ratio: should reach >80% within 5 minutes. 4) If DB load spikes, temporarily enable read replicas." ],
    [ incident_id |-> "INC-008",
      title |-> "Inventory service race condition causing overselling",
      root_cause |-> "Concurrent stock decrement operations on inventory-service were not using optimistic locking. Under high load, multiple orders could reserve the same unit of stock.",
      resolution |-> "Added optimistic locking with version check on inventory updates. Implemented idempotency keys for order placement. Added stock reconciliation job running every 5 minutes.",
      services_affected |-> <<"inventory-service", "order-service">>,
      severity |-> "critical",
      duration_min |-> 90,
      tags |-> <<"race-condition", "inventory", "concurrency", "data-integrity">>,
      runbook |-> "When overselling is detected: 1) Immediately pause order intake: 'kubectl scale deployment/order-service --replicas=0'. 2) Run stock reconciliation: 'python reconcile_stock.py --fix'. 3) Contact affected customers. 4) Deploy fix with optimistic locking. 5) Resume order service with reduced replicas, monitor for 1 hour." ]
  >>

(***************************************************************************)
(* The random source and the random module's functions.                    *)
(***************************************************************************)
RndSources == [seed : 0 .. RngMod - 1, stride : 0 .. RngMod - 1]

\* random.random(): the j-th draw of the call, as a numerator over RngMod
Draw(rnd, j) == (rnd.seed + j * rnd.stride) % RngMod

\* Random._randbelow(n): an integer of 0 .. n-1
RandBelow(n, u) == (u * n) \div RngMod

\* random.choice(seq)
Choice(seq, u) == seq[RandBelow(Len(seq), u) + 1]

\* random.randint(a, b), both ends included
RandInt(a, b, u) == a + RandBelow(b - a + 1, u)

\* random.uniform(a, b) = a + (b - a) * random(); a and b are given in
\* tenths, the result is a numerator over 10 * RngMod
Uniform(a, b, u) == a * RngMod + (b - a) * u

\* the integer nearest to num / den, ties to the even one (den > 0)
RoundHalfEven(num, den) ==
  LET q == num \div den
      r == num % den
  IN  IF 2 * r < den THEN q
      ELSE IF 2 * r > den THEN q + 1
      ELSE IF q % 2 = 0 THEN q ELSE q + 1

Pow10(nd) == IF nd = 1 THEN 10 ELSE 100

\* round(x, nd) of a numerator x over 10 * RngMod: an integer of units 10^-nd
Round(x, nd) == RoundHalfEven(x * Pow10(nd), 10 * RngMod)

\* random.sample(population, 2): the pool-swapping selection of CPython
Sample2(population, u0, u1) ==
  LET n == Len(population)
      j0 == RandBelow(n, u0) + 1
      pool1 == [population EXCEPT ![j0] = population[n]]
      j1 == RandBelow(n - 1, u1) + 1
  IN  <<population[j0], pool1[j1]>>

(***************************************************************************)
(* datetime, timedelta, isoformat.                                         *)
(***************************************************************************)
\* timedelta(days=d, seconds=s, microseconds=us) in normal form
Timedelta(d, s, us) ==
  LET s1 == s + (us \div 1000000)
  IN  [days |-> d + (s1 \div 86400), seconds |-> s1 % 86400,
       microseconds |-> us % 1000000]

\* timedelta(minutes=num/den): rounded to the nearest microsecond, ties to even
TimedeltaMinutes(num, den) ==
  LET secNum == num * 60
  IN  Timedelta(0, secNum \div den,
                RoundHalfEven((secNum % den) * 1000000, den))

\* datetime + timedelta
DtAdd(dt, td) ==
  LET us == dt.us + td.microseconds
      s == dt.sec + td.seconds + (us \div 1000000)
  IN  [day |-> dt.day + td.days + (s \div 86400), sec |-> s % 86400,
       us |-> us % 1000000]

\* datetime - timedelta
DtSub(dt, td) ==
  DtAdd(dt, Timedelta(0 - td.days, 0 - td.seconds, 0 - td.microseconds))

\* datetime.isoformat(): the fields of the rendered string, most significant
\* first (day ordinal, hour, minute, second, microsecond)
IsoFormat(dt) ==
  <<dt.day, dt.sec \div 3600, (dt.sec % 3600) \div 60, dt.sec % 60, dt.us>>

\* chronological order of two rendered timestamps
RECURSIVE IsoLeqFrom(_, _, _)
IsoLeqFrom(a, b, i) ==
  IF i > Len(a) THEN TRUE
  ELSE IF a[i] < b[i] THEN TRUE
  ELSE IF a[i] > b[i] THEN FALSE
  ELSE IsoLeqFrom(a, b, i + 1)

IsoLeq(a, b) == IsoLeqFrom(a, b, 1)

IsoLt(a, b) == IsoLeq(a, b) /\ a # b

\* mutant of Ts: the offset is taken with the wrong sign
TsForward(base, offset) ==
  IsoFormat(DtAdd(base, TimedeltaMinutes(0 - offset, 10 * RngMod)))

\* _ts(base, offset_minutes), offset a numerator over 10 * RngMod
Ts(base, offset) == IsoFormat(DtAdd(base, TimedeltaMinutes(offset, 10 * RngMod)))

\* _trace(): the first 16 hex digits of the MD5 of a fresh uuid4, kept as an
\* uninterpreted digest of the draw that made the uuid
Trace(u) == "md5:" \o ToString(u)

\* str.format(**kw) on a template: every {name} piece becomes str(kw[name])
RECURSIVE FormatFrom(_, _, _)
FormatFrom(template, kw, i) ==
  IF i > Len(template) THEN ""
  ELSE LET piece == template[i]
           text == IF piece \in DOMAIN kw THEN kw[piece] ELSE piece
       IN  text \o FormatFrom(template, kw, i + 1)

Format(template, kw) == FormatFrom(template, kw, 1)

(***************************************************************************)
(* Data generators.                                                        *)
(***************************************************************************)
\* one iteration of generate_normal_logs; p is the position of its first draw
NormalLogDoc(base, rnd, p) ==
  LET offset == Uniform(-600, 0, Draw(rnd, p))
      service == Choice(SERVICES, Draw(rnd, p + 1))
      host == Choice(HOSTS, Draw(rnd, p + 2))
      msg_template == Choice(NORMAL_MESSAGES, Draw(rnd, p + 3))
      msg == Format(msg_template,
                    ("{t}" :> ToString(RandInt(2, 500, Draw(rnd, p + 4)))) @@
                    ("{service}" :> service) @@
                    ("{n}" :> ToString(RandInt(10, 95, Draw(rnd, p + 5)))) @@
                    ("{uid}" :> ToString(RandInt(1000, 99999, Draw(rnd, p + 6)))))
  IN  ("_index" :> "soc-logs") @@
      ("@timestamp" :> Ts(base, offset)) @@
      ("service" :> service) @@
      ("level" :> Choice(LOG_LEVELS_NORMAL, Draw(rnd, p + 7))) @@
      ("message" :> msg) @@
      ("host" :> host) @@
      ("trace_id" :> Trace(Draw(rnd, p + 8)))

\* mutant of generate_normal_logs: the loop stops one iteration early
generate_normal_logs_short(base, count, rnd) ==
  [i \in 1 .. count - 1 |-> NormalLogDoc(base, rnd, 9 * (i - 1))]

generate_normal_logs(base, count, rnd) ==
  [i \in 1 .. count |-> NormalLogDoc(base, rnd, 9 * (i - 1))]

\* the services and hosts incident records are drawn from
IncidentServices == SubSeq(SERVICES, 1, 4)

\* mutant of IncidentHosts: the slice takes one host too many
IncidentHostsFive == SubSeq(HOSTS, 1, 5)

IncidentHosts == SubSeq(HOSTS, 1, 4)

\* mutant of IncidentLogDoc: the document lacks its trace_id
IncidentLogDocNoTrace(base, error_msgs, rnd, p) ==
  LET service == Choice(IncidentServices, Draw(rnd, p + 1))
      host == Choice(IncidentHosts, Draw(rnd, p + 2))
  IN  ("_index" :> "soc-logs") @@
      ("@timestamp" :> Ts(base, Uniform(-150, 0, Draw(rnd, p)))) @@
      ("service" :> service) @@
      ("level" :> Choice(LOG_LEVELS_INCIDENT, Draw(rnd, p + 6))) @@
      ("message" :> Format(Choice(error_msgs, Draw(rnd, p + 3)),
                           ("{host}" :> host) @@ ("{service}" :> service) @@
                           ("{n}" :> ToString(RandInt(85, 100, Draw(rnd, p + 4)))) @@
                           ("{t}" :> ToString(RandInt(1000, 30000, Draw(rnd, p + 5)))))) @@
      ("host" :> host)

\* one iteration of generate_incident_logs
IncidentLogDoc(base, error_msgs, rnd, p) ==
  LET offset == Uniform(-150, 0, Draw(rnd, p))
      service == Choice(IncidentServices, Draw(rnd, p + 1))
      host == Choice(IncidentHosts, Draw(rnd, p + 2))
      msg_template == Choice(error_msgs, Draw(rnd, p + 3))
      msg == Format(msg_template,
                    ("{host}" :> host) @@
                    ("{service}" :> service) @@
                    ("{n}" :> ToString(RandInt(85, 100, Draw(rnd, p + 4)))) @@
                    ("{t}" :> ToString(RandInt(1000, 30000, Draw(rnd, p + 5)))))
  IN  ("_index" :> "soc-logs") @@
      ("@timestamp" :> Ts(base, offset)) @@
      ("service" :> service) @@
      ("level" :> Choice(LOG_LEVELS_INCIDENT, Draw(rnd, p + 6))) @@
      ("message" :> msg) @@
      ("host" :> host) @@
      ("trace_id" :> Trace(Draw(rnd, p + 7)))

\* A call that ended either returned a value or raised:
\* [done, raised |-> the exception's name or "", value |-> the value returned]
Return(v) == [done |-> TRUE, raised |-> "", value |-> v]

Raise(e) == [done |-> TRUE, raised |-> e, value |-> <<>>]

Pending == [done |-> FALSE, raised |-> "", value |-> <<>>]

generate_incident_logs(base, scenario, count, rnd) ==
  IF scenario \notin DOMAIN ERROR_MESSAGES_BY_SCENARIO
  THEN Raise("KeyError")
  ELSE Return([i \in 1 .. count |->
                 IncidentLogDoc(base, ERROR_MESSAGES_BY_SCENARIO[scenario],
                                rnd, 8 * (i - 1))])

\* the numeric fields of a healthy sample, each from its own draw u
NormalMetricValue(field, u) ==
  CASE field = "cpu_pct" -> Round(Uniform(100, 550, u), 1)
    [] field = "mem_pct" -> Round(Uniform(300, 700, u), 1)
    [] field = "disk_io" -> Round(Uniform(5, 200, u), 2)
    [] field = "net_in" -> RandInt(100000, 5000000, u)
    [] field = "net_out" -> RandInt(50000, 3000000, u)

\* mutant of NormalMetricDoc: the sample is addressed to the audit index
NormalMetricDocToActions(base, rnd, p) ==
  ("_index" :> "soc-actions") @@
  ("@timestamp" :> Ts(base, Uniform(-600, 0, Draw(rnd, p)))) @@
  ("host" :> Choice(HOSTS, Draw(rnd, p + 1))) @@
  ("cpu_pct" :> NormalMetricValue("cpu_pct", Draw(rnd, p + 2))) @@
  ("mem_pct" :> NormalMetricValue("mem_pct", Draw(rnd, p + 3))) @@
  ("disk_io" :> NormalMetricValue("disk_io", Draw(rnd, p + 4))) @@
  ("net_in" :> NormalMetricValue("net_in", Draw(rnd, p + 5))) @@
  ("net_out" :> NormalMetricValue("net_out", Draw(rnd, p + 6)))

\* one iteration of generate_normal_metrics
NormalMetricDoc(base, rnd, p) ==
  ("_index" :> "soc-metrics") @@
  ("@timestamp" :> Ts(base, Uniform(-600, 0, Draw(rnd, p)))) @@
  ("host" :> Choice(HOSTS, Draw(rnd, p + 1))) @@
  ("cpu_pct" :> NormalMetricValue("cpu_pct", Draw(rnd, p + 2))) @@
  ("mem_pct" :> NormalMetricValue("mem_pct", Draw(rnd, p + 3))) @@
  ("disk_io" :> NormalMetricValue("disk_io", Draw(rnd, p + 4))) @@
  ("net_in" :> NormalMetricValue("net_in", Draw(rnd, p + 5))) @@
  ("net_out" :> NormalMetricValue("net_out", Draw(rnd, p + 6)))

generate_normal_metrics(base, count, rnd) ==
  [i \in 1 .. count |-> NormalMetricDoc(base, rnd, 7 * (i - 1))]

\* mutant of IncidentMetricValue: the memory of a cascading failure starts
\* at 65 instead of 75
IncidentMetricValueLowMem(scenario, field, u) ==
  CASE field = "cpu_pct" ->
         IF scenario = "cpu_spike" THEN Round(Uniform(920, 1000, u), 1)
         ELSE IF scenario = "oom_crash" THEN Round(Uniform(500, 750, u), 1)
         ELSE Round(Uniform(800, 980, u), 1)
    [] field = "mem_pct" ->
         IF scenario = "cpu_spike" THEN Round(Uniform(600, 800, u), 1)
         ELSE IF scenario = "oom_crash" THEN Round(Uniform(950, 1000, u), 1)
         ELSE Round(Uniform(650, 950, u), 1)
    [] field = "disk_io" -> Round(Uniform(500, 2000, u), 2)
    [] field = "net_in" -> RandInt(10000000, 50000000, u)
    [] field = "net_out" -> RandInt(5000000, 30000000, u)

\* the numeric fields of an anomalous sample, each from its own draw u;
\* cpu and mem follow the if / elif / else on scenario
IncidentMetricValue(scenario, field, u) ==
  CASE field = "cpu_pct" ->
         IF scenario = "cpu_spike" THEN Round(Uniform(920, 1000, u), 1)
         ELSE IF scenario = "oom_crash" THEN Round(Uniform(500, 750, u), 1)
         ELSE Round(Uniform(800, 980, u), 1)
    [] field = "mem_pct" ->
         IF scenario = "cpu_spike" THEN Round(Uniform(600, 800, u), 1)
         ELSE IF scenario = "oom_crash" THEN Round(Uniform(950, 1000, u), 1)
         ELSE Round(Uniform(750, 950, u), 1)
    [] field = "disk_io" -> Round(Uniform(500, 2000, u), 2)
    [] field = "net_in" -> RandInt(10000000, 50000000, u)
    [] field = "net_out" -> RandInt(5000000, 30000000, u)

\* one iteration of generate_incident_metrics
IncidentMetricDoc(base, scenario, target_hosts, rnd, p) ==
  LET offset == Uniform(-150, 0, Draw(rnd, p))
      host == Choice(target_hosts, Draw(rnd, p + 1))
      cpu == IncidentMetricValue(scenario, "cpu_pct", Draw(rnd, p + 2))
      mem == IncidentMetricValue(scenario, "mem_pct", Draw(rnd, p + 3))
  IN  ("_index" :> "soc-metrics") @@
      ("@timestamp" :> Ts(base, offset)) @@
      ("host" :> host) @@
      ("cpu_pct" :> cpu) @@
      ("mem_pct" :> mem) @@
      ("disk_io" :> IncidentMetricValue(scenario, "disk_io", Draw(rnd, p + 4))) @@
      ("net_in" :> IncidentMetricValue(scenario, "net_in", Draw(rnd, p + 5))) @@
      ("net_out" :> IncidentMetricValue(scenario, "net_out", Draw(rnd, p + 6)))

generate_incident_metrics(base, scenario, count, rnd) ==
  LET target_hosts == Sample2(IncidentHosts, Draw(rnd, 0), Draw(rnd, 1))
  IN  Return([i \in 1 .. count |->
                IncidentMetricDoc(base, scenario, target_hosts, rnd,
                                  2 + 7 * (i - 1))])

(***************************************************************************)
(* The clock: reading i (0-based) of a call started at t0 when the clock   *)
(* advances tick microseconds between two readings.                        *)
(***************************************************************************)
Now(t0, tick, i) == DtAdd(t0, Timedelta(0, 0, i * tick))

\* mutant of IncidentDoc: the age is drawn from 0 .. 180 days
IncidentDocRecent(inc, now, u) ==
  ("created_at" :> IsoFormat(DtSub(now, Timedelta(RandInt(0, 180, u), 0, 0)))) @@
  inc @@
  ("_index" :> "soc-incidents")

\* one iteration of generate_incidents: the i-th catalog entry
IncidentDoc(inc, now, u) ==
  ("created_at" :> IsoFormat(DtSub(now, Timedelta(RandInt(7, 180, u), 0, 0)))) @@
  inc @@
  ("_index" :> "soc-incidents")

\* mutant of IncidentEntryAfter: the document is the entry itself, written to
\* in place
IncidentEntryAliased(inc, doc) == doc

\* the catalog entry inc after doc was built from it: {**inc} copies the
\* entry's items into a new dict, so the entry keeps what it held
IncidentEntryAfter(inc, doc) == inc

\* generate_incidents() on the catalog cat: the list returned, and the catalog
\* as the call leaves it
generate_incidents(cat, t0, tick, rnd) ==
  [value |-> [i \in 1 .. Len(cat) |->
                IncidentDoc(cat[i], Now(t0, tick, i - 1), Draw(rnd, i - 1))],
   catalog |-> [i \in 1 .. Len(cat) |->
                  IncidentEntryAfter(cat[i],
                    IncidentDoc(cat[i], Now(t0, tick, i - 1), Draw(rnd, i - 1)))]]

(***************************************************************************)
(* The datastore: for each index of MAPPINGS whether it exists and how     *)
(* many documents it holds.  A bulk write gives every document a fresh id, *)
(* so every document written adds one.                                     *)
(***************************************************************************)
NoIndex == [exists |-> FALSE, docs |-> 0]

\* es.indices.exists(index=name)
IndexExists(store, name) == store[name].exists

\* es.indices.delete(index=name)
DeleteIndex(store, name) == [store EXCEPT ![name] = NoIndex]

\* es.indices.create(index=name, body=mapping)
CreateIndex(store, name) == [store EXCEPT ![name] = [exists |-> TRUE, docs |-> 0]]

\* es.count(index=name)["count"], after es.indices.refresh(index=name)
CountDocs(store, name) == store[name].docs

\* create_indices: the loop over MAPPINGS.items(), from its k-th key on
RECURSIVE CreateIndicesFrom(_, _)
CreateIndicesFrom(store, k) ==
  IF k > Len(IndexOrder) THEN store
  ELSE LET index_name == IndexOrder[k]
           cleared == IF IndexExists(store, index_name)
                      THEN DeleteIndex(store, index_name)
                      ELSE store
       IN  CreateIndicesFrom(CreateIndex(cleared, index_name), k + 1)

\* mutant of create_indices: an index that exists is left as it is
create_indices_keep(store) ==
  [x \in IndexNames |->
     IF IndexExists(store, x) THEN store[x] ELSE [exists |-> TRUE, docs |-> 0]]

create_indices(store) == CreateIndicesFrom(store, 1)

(***************************************************************************)
(* helpers.bulk(es, all_docs, raise_on_error=False).  The datastore may    *)
(* reject documents; a rejection pattern names which ones.                 *)
(***************************************************************************)
RejectPatterns == {"none", "first", "metrics"}

Rejected(docs, pattern) ==
  IF pattern = "first" THEN {i \in DOMAIN docs : i = 1}
  ELSE IF pattern = "metrics"
       THEN {i \in DOMAIN docs : docs[i]["_index"] = "soc-metrics"}
       ELSE {}

\* how many of the documents at the positions of keep target each index
Targets(docs, keep) ==
  [x \in IndexNames |-> Cardinality({i \in keep : docs[i]["_index"] = x})]

\* the record of the helpers.bulk calls: how many calls were made, and for
\* the last one the lengths of the five lists it was built from, the
\* number of documents handed over per index and in all, and the (success,
\* errors) it returned; failed counts the errors of all the calls
NoBulk ==
  [calls |-> 0, parts |-> <<>>, sent |-> [x \in IndexNames |-> 0], total |-> 0,
   success |-> 0, errors |-> 0, failed |-> 0]

BulkOutcome(store, b, cat, parts, total, sent, stored) ==
  [raised |-> "",
   catalog |-> cat,
   store |-> [x \in IndexNames |->
                IF stored[x] > 0
                THEN [exists |-> TRUE, docs |-> store[x].docs + stored[x]]
                ELSE store[x]],
   bulk |-> [calls |-> b.calls + 1, parts |-> parts, sent |-> sent,
             total |-> total,
             success |-> stored["soc-logs"] + stored["soc-metrics"]
                           + stored["soc-incidents"] + stored["soc-actions"],
             errors |-> total - (stored["soc-logs"] + stored["soc-metrics"]
                           + stored["soc-incidents"] + stored["soc-actions"]),
             failed |-> b.failed + total
                           - (stored["soc-logs"] + stored["soc-metrics"]
                              + stored["soc-incidents"] + stored["soc-actions"])]]

BulkWrite(store, b, cat, parts, docs, rejected) ==
  BulkOutcome(store, b, cat, parts, Len(docs), Targets(docs, DOMAIN docs),
              Targets(docs, DOMAIN docs \ rejected))

\* helpers.bulk as it is with raise_on_error left at its default: the batch
\* is sent, and a rejected document raises BulkIndexError
BulkRaising(store, b, cat, parts, docs, pattern) ==
  [BulkWrite(store, b, cat, parts, docs, Rejected(docs, pattern))
     EXCEPT !.raised = IF Rejected(docs, pattern) = {} THEN ""
                       ELSE "BulkIndexError"]

\* cat, the catalog at the time of the call, is passed through
Bulk(store, b, cat, parts, docs, pattern) ==
  BulkWrite(store, b, cat, parts, docs, Rejected(docs, pattern))

(***************************************************************************)
(* seed_scenario(es, scenario).  now is the first clock reading of the     *)
(* call; generate_incidents takes the following ones.  The five generators *)
(* draw from the same random source one after the other.                   *)
(***************************************************************************)
\* the random source after k draws
Advance(rnd, k) == [seed |-> Draw(rnd, k), stride |-> rnd.stride]

\* all_docs built from the five lists and handed to helpers.bulk, unless
\* generate_incident_logs raised
SeedBatch(store, b, cat, normal_logs, normal_metrics, incident_logs, incident_metrics, incidents, pattern) ==
  IF incident_logs.raised # ""
  THEN [raised |-> incident_logs.raised, catalog |-> cat, store |-> store,
        bulk |-> b]
  ELSE Bulk(store, b, incidents.catalog,
            <<Len(normal_logs), Len(normal_metrics), Len(incident_logs.value),
              Len(incident_metrics.value), Len(incidents.value)>>,
            normal_logs \o normal_metrics \o incident_logs.value
              \o incident_metrics.value \o incidents.value,
            pattern)

seed_scenario(store, b, cat, scenario, t0, tick, rnd, pattern) ==
  SeedBatch(store, b, cat,
            generate_normal_logs(Now(t0, tick, 0), 200, rnd),
            generate_normal_metrics(Now(t0, tick, 0), 100, Advance(rnd, 1800)),
            generate_incident_logs(Now(t0, tick, 0), scenario, 80,
                                   Advance(rnd, 2500)),
            generate_incident_metrics(Now(t0, tick, 0), scenario, 50,
                                      Advance(rnd, 3140)),
            generate_incidents(cat, Now(t0, tick, 1), tick, Advance(rnd, 3492)),
            pattern)

(***************************************************************************)
(* SpecGen: one call of a generator, or of seed_scenario on freshly        *)
(* created indices, on arguments drawn at Init.                            *)
(***************************************************************************)
Scenarios == <<"cpu_spike", "oom_crash", "cascading_failure">>

ScenarioSet == {Scenarios[i] : i \in DOMAIN Scenarios}

\* the scenario arguments tried: the three scenarios and an unknown key
ScenarioInputs == ScenarioSet \cup {"disk_full"}

\* anchor times: 00:20:00.000000 of a day (an hour back is the day before)
\* and 12:34:56.999999 of another (a microsecond on is the next second)
AnchorSeq ==
  << [day |-> 19000, sec |-> 1200, us |-> 0],
     [day |-> 19723, sec |-> 45296, us |-> 999999] >>

Anchors == {AnchorSeq[i] : i \in DOMAIN AnchorSeq}

Ticks == 0 .. MaxTick

GenCall(op, time, scenario, count, rnd, tick, pattern) ==
  [op |-> op, time |-> time, scenario |-> scenario, count |-> count,
   rnd |-> rnd, tick |-> tick, pattern |-> pattern]

\* the clock that goes with a random source where the two are not varied
\* independently: every anchor and every tick occurs
ClockOf(rnd) ==
  [t0 |-> AnchorSeq[(rnd.seed % Len(AnchorSeq)) + 1],
   tick |-> rnd.stride % (MaxTick + 1)]

GenCalls ==
  {GenCall(op, t, "", n, r, 0, "none") :
     op \in {"generate_normal_logs", "generate_normal_metrics"},
     t \in Anchors, n \in 0 .. MaxCount, r \in RndSources}
  \cup
  {GenCall(op, t, s, n, r, 0, "none") :
     op \in {"generate_incident_logs", "generate_incident_metrics"},
     t \in Anchors, s \in ScenarioInputs, n \in 0 .. MaxCount, r \in RndSources}
  \cup
  {GenCall("generate_incidents", t, "", 0, r, k, "none") :
     t \in Anchors, r \in RndSources, k \in Ticks}
  \cup
  {GenCall("seed_scenario", ClockOf(r).t0, s, 0, r, ClockOf(r).tick, p) :
     s \in ScenarioInputs, r \in RndSources, p \in RejectPatterns}

NoEnv == [cloud_id |-> FALSE, url |-> FALSE, api_key |-> FALSE]

NoReport == [x \in IndexNames |-> 0]

InitGen ==
  /\ call \in GenCalls
  /\ ret = Pending
  /\ es = create_indices([x \in IndexNames |-> NoIndex])
  /\ bulk = NoBulk
  /\ pc = "library"
  /\ env = NoEnv
  /\ client = ""
  /\ choice = ""
  /\ todo = <<>>
  /\ reported = NoReport
  /\ seeded = <<>>
  /\ catalog = HISTORICAL_INCIDENTS

mainVars == <<pc, env, client, choice, todo, reported, seeded>>

CallGenerateNormalLogs ==
  /\ ~ret.done
  /\ call.op = "generate_normal_logs"
  /\ ret' = Return(generate_normal_logs(call.time, call.count, call.rnd))
  /\ UNCHANGED <<call, es, bulk, catalog, mainVars>>

CallGenerateNormalMetrics ==
  /\ ~ret.done
  /\ call.op = "generate_normal_metrics"
  /\ ret' = Return(generate_normal_metrics(call.time, call.count, call.rnd))
  /\ UNCHANGED <<call, es, bulk, catalog, mainVars>>

CallGenerateIncidentLogs ==
  /\ ~ret.done
  /\ call.op = "generate_incident_logs"
  /\ ret' = generate_incident_logs(call.time, call.scenario, call.count, call.rnd)
  /\ UNCHANGED <<call, es, bulk, catalog, mainVars>>

CallGenerateIncidentMetrics ==
  /\ ~ret.done
  /\ call.op = "generate_incident_metrics"
  /\ ret' = generate_incident_metrics(call.time, call.scenario, call.count, call.rnd)
  /\ UNCHANGED <<call, es, bulk, catalog, mainVars>>

\* the effect of a generate_incidents call that ended with outcome
CallIncidentsEffect(outcome) ==
  /\ ret' = Return(outcome.value)
  /\ catalog' = outcome.catalog

CallGenerateIncidents ==
  /\ ~ret.done
  /\ call.op = "generate_incidents"
  /\ CallIncidentsEffect(generate_incidents(catalog, call.time, call.tick, call.rnd))
  /\ UNCHANGED <<call, es, bulk, mainVars>>

\* the effect of a seed_scenario call that ended with outcome (the function
\* returns None)
CallSeedEffect(outcome) ==
  /\ es' = outcome.store
  /\ bulk' = outcome.bulk
  /\ catalog' = outcome.catalog
  /\ ret' = IF outcome.raised = "" THEN Return(<<>>) ELSE Raise(outcome.raised)

CallSeedScenario ==
  /\ ~ret.done
  /\ call.op = "seed_scenario"
  /\ CallSeedEffect(seed_scenario(es, bulk, catalog, call.scenario, call.time, call.tick,
                                  call.rnd, call.pattern))
  /\ UNCHANGED <<call, mainVars>>

NextGen ==
  \/ CallGenerateNormalLogs
  \/ CallGenerateNormalMetrics
  \/ CallGenerateIncidentLogs
  \/ CallGenerateIncidentMetrics
  \/ CallGenerateIncidents
  \/ CallSeedScenario

SpecGen == InitGen /\ [][NextGen]_vars

(***************************************************************************)
(* Spec: runs of main() against a datastore with arbitrary prior contents. *)
(***************************************************************************)
\* get_es_client(): the kind of client returned, or SystemExit(1)
get_es_client(e) ==
  IF e.cloud_id /\ e.api_key THEN Return("cloud_id+api_key")
  ELSE IF e.url /\ e.api_key THEN Return("url+api_key")
  ELSE IF e.url THEN Return("url")
  ELSE Raise("SystemExit(1)")

\* what can be typed at the prompt, and what str.strip() makes of it
RawInputs == {"", "  ", "1", " 2 ", "3", "4", "0", "7", "-1", "all"}

Strip(raw) ==
  IF raw = "  " THEN "" ELSE IF raw = " 2 " THEN "2" ELSE raw

\* int(choice) for the stripped inputs; any other text raises ValueError
IntOf ==
  ("1" :> 1) @@ ("2" :> 2) @@ ("3" :> 3) @@ ("4" :> 4) @@ ("0" :> 0) @@
  ("7" :> 7) @@ ("-1" :> -1)

\* the scenarios main() seeds for a choice, in order, or the exception raised
Plan(c) ==
  IF c = "4" THEN Return(Scenarios)
  ELSE IF c \notin DOMAIN IntOf THEN Raise("ValueError")
  ELSE LET idx == IntOf[c] - 1
       IN  IF 0 <= idx /\ idx < Len(Scenarios)
           THEN Return(<<Scenarios[idx + 1]>>)
           ELSE Return(Scenarios)

PriorIndexStates == {NoIndex} \cup {[exists |-> TRUE, docs |-> n] : n \in 0 .. MaxPrior}

Init ==
  /\ pc = "start"
  /\ env \in [cloud_id : BOOLEAN, url : BOOLEAN, api_key : BOOLEAN]
  /\ es \in [IndexNames -> PriorIndexStates]
  /\ client = ""
  /\ choice = ""
  /\ todo = <<>>
  /\ bulk = NoBulk
  /\ reported = NoReport
  /\ seeded = <<>>
  /\ catalog = HISTORICAL_INCIDENTS
  /\ call = GenCall("main", AnchorSeq[1], "", 0, [seed |-> 0, stride |-> 0], 0, "none")
  /\ ret = Pending

\* es = get_es_client(); info = es.info()
MainConnect ==
  /\ pc = "start"
  /\ client' = get_es_client(env).value
  /\ pc' = IF get_es_client(env).raised = "" THEN "connected" ELSE "exited"
  /\ UNCHANGED <<call, ret, env, choice, todo, es, bulk, reported, seeded, catalog>>

\* create_indices(es)
MainCreateIndices ==
  /\ pc = "connected"
  /\ es' = create_indices(es)
  /\ pc' = "prompt"
  /\ UNCHANGED <<call, ret, env, client, choice, todo, bulk, reported, seeded, catalog>>

\* choice = input(...).strip() or "4", and the branch on it
MainPrompt ==
  /\ pc = "prompt"
  /\ \E raw \in RawInputs :
       LET c == IF Strip(raw) = "" THEN "4" ELSE Strip(raw)
       IN  /\ choice' = c
           /\ todo' = Plan(c).value
           /\ pc' = IF Plan(c).raised = "" THEN "seeding" ELSE "crashed"
  /\ UNCHANGED <<call, ret, env, client, es, bulk, reported, seeded, catalog>>

\* The random sources tried in a run of main(), where a document matters
\* through its index alone: one per seed, so that every draw of the call
\* takes every value.
MainSources == {r \in RndSources : r.stride = 1}

\* the effect on main() of a seed_scenario call that ended with outcome
MainSeedEffect(outcome) ==
  /\ es' = outcome.store
  /\ bulk' = outcome.bulk
  /\ catalog' = outcome.catalog
  /\ pc' = IF outcome.raised = "" THEN "seeding" ELSE "crashed"

\* seed_scenario(es, s) for the next scenario to seed
MainSeed ==
  /\ pc = "seeding"
  /\ todo # <<>>
  /\ \E rnd \in MainSources, pattern \in RejectPatterns :
       MainSeedEffect(seed_scenario(es, bulk, catalog, Head(todo), ClockOf(rnd).t0,
                                    ClockOf(rnd).tick, rnd, pattern))
  /\ todo' = Tail(todo)
  /\ seeded' = Append(seeded, Head(todo))
  /\ UNCHANGED <<call, ret, env, client, choice, reported>>

\* the verification loop: refresh and count every index of MAPPINGS
MainVerify ==
  /\ pc = "seeding"
  /\ todo = <<>>
  /\ reported' = [x \in IndexNames |-> CountDocs(es, x)]
  /\ pc' = "done"
  /\ UNCHANGED <<call, ret, env, client, choice, todo, es, bulk, seeded, catalog>>

\* the script is started again, on the datastore as the last run left it
MainRerun ==
  /\ pc \in {"done", "exited", "crashed"}
  /\ pc' = "start"
  /\ client' = ""
  /\ choice' = ""
  /\ todo' = <<>>
  /\ bulk' = NoBulk
  /\ reported' = NoReport
  /\ seeded' = <<>>
  \* a new process imports the module anew
  /\ catalog' = HISTORICAL_INCIDENTS
  /\ UNCHANGED <<call, ret, env, es>>

Next ==
  \/ MainConnect
  \/ MainCreateIndices
  \/ MainPrompt
  \/ MainSeed
  \/ MainVerify
  \/ MainRerun

Spec == Init /\ [][Next]_vars

(***************************************************************************)
(* Properties.                                                             *)
(***************************************************************************)
ScenarioOps == {"generate_incident_logs", "generate_incident_metrics"}

NormalOps == {"generate_normal_logs", "generate_normal_metrics"}

GeneratorOps == NormalOps \cup ScenarioOps \cup {"generate_incidents"}

\* the documents the call returned
Returned == IF ret.done /\ call.op \in GeneratorOps /\ ret.raised = ""
            THEN {ret.value[i] : i \in DOMAIN ret.value} ELSE {}

\* C1: every operation that takes a scenario fails with an error when the
\* scenario is not one of the three known ones: it returns no documents and
\* makes no bulk write.  (Stated as the claim states it; generate_incident_metrics
\* violates it.)
C1_UnknownScenarioFails ==
  (/\ ret.done
   /\ call.op \in ScenarioOps \cup {"seed_scenario"}
   /\ call.scenario \notin {"cpu_spike", "oom_crash", "cascading_failure"})
  => (ret.raised # "" /\ ret.value = <<>> /\ bulk.calls = 0)

\* C2: each generator returns exactly as many documents as were requested,
\* and one seed_scenario call hands the bulk writer 200 normal logs, 100
\* normal metrics, 80 incident logs, 50 incident metrics and the catalog.
C2_CountEqualsRequested ==
  /\ (ret.done /\ call.op \in NormalOps)
       => (ret.raised = "" /\ Len(ret.value) = call.count)
  /\ (ret.done /\ call.op \in ScenarioOps /\ call.scenario \in ScenarioSet)
       => (ret.raised = "" /\ Len(ret.value) = call.count)
  /\ (ret.done /\ call.op = "seed_scenario" /\ call.scenario \in ScenarioSet)
       => (/\ ret.raised = ""
           /\ bulk.calls = 1
           /\ bulk.parts = <<200, 100, 80, 50, 8>>
           /\ bulk.total = 438)

C2_Witness ==
  /\ ret.done
  /\ call.op = "generate_incident_metrics"
  /\ call.scenario = "oom_crash"
  /\ call.count = MaxCount
  /\ Len(ret.value) = MaxCount

\* the start of the look-back window of the given length before base
WindowStart(base, minutes) == IsoFormat(DtSub(base, Timedelta(0, minutes * 60, 0)))

InWindow(doc, base, minutes) ==
  /\ IsoLeq(WindowStart(base, minutes), doc["@timestamp"])
  /\ IsoLeq(doc["@timestamp"], IsoFormat(base))

\* C3: the timestamp of every normal log or metric lies in [T - 60 min, T]
\* and that of every incident log or metric in [T - 15 min, T], T the anchor.
C3_TimestampInWindow ==
  /\ (ret.done /\ call.op \in NormalOps)
       => \A doc \in Returned : InWindow(doc, call.time, 60)
  /\ (ret.done /\ call.op \in ScenarioOps)
       => \A doc \in Returned : InWindow(doc, call.time, 15)

\* an incident log stamped at the very start of its window
C3_Witness ==
  /\ ret.done
  /\ call.op = "generate_incident_logs"
  /\ \E doc \in Returned : doc["@timestamp"] = WindowStart(call.time, 15)

\* C4: every incident log has its service among the first four SERVICES and
\* its host among the first four HOSTS; every incident metric has its host
\* among the first four HOSTS.
C4_IncidentSubset ==
  /\ (ret.done /\ call.op = "generate_incident_logs")
       => \A doc \in Returned :
            /\ doc["service"] \in {SERVICES[i] : i \in 1 .. 4}
            /\ doc["host"] \in {HOSTS[i] : i \in 1 .. 4}
  /\ (ret.done /\ call.op = "generate_incident_metrics")
       => \A doc \in Returned : doc["host"] \in {HOSTS[i] : i \in 1 .. 4}

\* an incident metric on the fourth host, the last one allowed
C4_Witness ==
  /\ ret.done
  /\ call.op = "generate_incident_metrics"
  /\ call.scenario \in ScenarioSet
  /\ \E doc \in Returned : doc["host"] = HOSTS[4]

\* the documents of a generate_incidents call follow the catalog, one each
FollowsCatalog ==
  /\ Len(ret.value) = 8
  /\ \A i \in DOMAIN ret.value :
       ret.value[i]["incident_id"] = HISTORICAL_INCIDENTS[i].incident_id

\* C5 as claimed: generate_incidents returns 8 documents, one per catalog
\* entry in catalog order, with pairwise distinct created_at, each strictly
\* earlier than the time of the call.
C5_DistinctPastTimestamps ==
  (ret.done /\ call.op = "generate_incidents")
  => /\ FollowsCatalog
     /\ \A i, j \in DOMAIN ret.value :
          i # j => ret.value[i]["created_at"] # ret.value[j]["created_at"]
     /\ \A i \in DOMAIN ret.value :
          IsoLt(ret.value[i]["created_at"], IsoFormat(call.time))

\* C5 as amended: generate_incidents returns 8 documents, one per catalog
\* entry in catalog order; each created_at is a whole number of days, from 7
\* to 180, before the clock reading taken for that document, and strictly
\* earlier than the time of the call.  (Two documents may share a created_at.)
C5_PastTimestamps ==
  (ret.done /\ call.op = "generate_incidents")
  => /\ FollowsCatalog
     /\ \A i \in DOMAIN ret.value :
          /\ \E d \in 7 .. 180 :
               ret.value[i]["created_at"]
                 = IsoFormat(DtSub(Now(call.time, call.tick, i - 1),
                                   Timedelta(d, 0, 0)))
          /\ IsoLt(ret.value[i]["created_at"], IsoFormat(call.time))

\* two documents of one call with the same created_at
C5_Witness ==
  /\ ret.done
  /\ call.op = "generate_incidents"
  /\ Len(ret.value) = 8
  /\ \E i, j \in DOMAIN ret.value :
       i # j /\ ret.value[i]["created_at"] = ret.value[j]["created_at"]

\* C6: generate_incidents leaves the catalog as it was, and every document it
\* returns has the fields of its catalog entry, with the entry's values, plus
\* _index and created_at.
C6_CatalogUnchanged ==
  /\ catalog = HISTORICAL_INCIDENTS
  /\ (ret.done /\ call.op = "generate_incidents")
       => /\ DOMAIN ret.value = DOMAIN HISTORICAL_INCIDENTS
          /\ \A i \in DOMAIN ret.value :
               /\ DOMAIN ret.value[i]
                    = DOMAIN HISTORICAL_INCIDENTS[i] \cup {"_index", "created_at"}
               /\ ret.value[i]["_index"] = "soc-incidents"
               /\ \A k \in DOMAIN HISTORICAL_INCIDENTS[i] :
                    ret.value[i][k] = HISTORICAL_INCIDENTS[i][k]

\* a call whose last document carries a created_at of its own beside the
\* runbook of the last catalog entry
C6_Witness ==
  /\ ret.done
  /\ call.op = "generate_incidents"
  /\ Len(ret.value) = 8
  /\ ret.value[8]["runbook"] = HISTORICAL_INCIDENTS[8].runbook
  /\ ret.value[8]["created_at"] # ret.value[1]["created_at"]

\* the run of main() for choice c on a datastore without any index, no
\* document being rejected: the datastore it ends with
RECURSIVE SeedAll(_, _)
SeedAll(outcome, plan) ==
  IF plan = <<>> THEN outcome
  ELSE SeedAll(seed_scenario(outcome.store, outcome.bulk, outcome.catalog,
                             Head(plan), AnchorSeq[1], 0,
                             [seed |-> 0, stride |-> 1], "none"),
               Tail(plan))

RunOnEmpty(c) ==
  SeedAll([raised |-> "", catalog |-> HISTORICAL_INCIDENTS,
           store |-> create_indices([x \in IndexNames |-> NoIndex]),
           bulk |-> NoBulk],
          Plan(c).value).store

SameCounts(store) ==
  \A x \in IndexNames :
    reported[x] = CountDocs(store, x) /\ CountDocs(es, x) = CountDocs(store, x)

\* C7: a run of main() without bulk errors ends with the per-index document
\* counts of the same run on an empty datastore, whatever the indices held
\* when it started.
C7_RunIdempotent ==
  (pc = "done" /\ bulk.failed = 0) => SameCounts(RunOnEmpty(choice))

\* a completed run of all three scenarios without bulk errors
C7_Witness ==
  /\ pc = "done"
  /\ bulk.failed = 0
  /\ bulk.calls = 3
  /\ reported["soc-logs"] = 840

\* C8: soc-actions is created but never written: no bulk write is handed a
\* document for it, and once the indices are recreated, and at the end of the
\* run, it exists and holds no document.
C8_ActionsNeverWritten ==
  /\ bulk.sent["soc-actions"] = 0
  /\ pc \in {"prompt", "seeding", "crashed", "done"}
       => es["soc-actions"] = [exists |-> TRUE, docs |-> 0]
  /\ pc = "done" => reported["soc-actions"] = 0

\* a completed run that wrote to the other three indices
C8_Witness ==
  /\ pc = "done"
  /\ bulk.calls = 3
  /\ bulk.sent["soc-logs"] = 280
  /\ reported["soc-metrics"] > 0
  /\ reported["soc-incidents"] > 0
  /\ es["soc-actions"] = [exists |-> TRUE, docs |-> 0]

\* C9: every document a generator returns names an index of MAPPINGS and
\* has, beside _index, exactly the properties MAPPINGS declares for it.
C9_WellFormed ==
  \A doc \in Returned :
    /\ "_index" \in DOMAIN doc
    /\ doc["_index"] \in DOMAIN MAPPINGS
    /\ DOMAIN doc \ {"_index"} = DOMAIN MAPPINGS[doc["_index"]]

\* an incident metric with the seven properties of soc-metrics
C9_Witness ==
  /\ ret.done
  /\ call.op = "generate_incident_metrics"
  /\ \E doc \in Returned :
       /\ doc["_index"] = "soc-metrics"
       /\ Cardinality(DOMAIN doc) = 8

NumericFields == {"cpu_pct", "mem_pct", "disk_io", "net_in", "net_out"}

\* v lies outside the range of the healthy values of field: below the value
\* of the lowest draw or above the value at the upper end of the draws (the
\* draw RngMod stands for the supremum of [0,1), which rounding reaches)
OutsideNormal(field, v) ==
  v < NormalMetricValue(field, 0) \/ v > NormalMetricValue(field, RngMod)

\* C10 as claimed: for every scenario and every numeric field, the values of
\* incident metrics lie outside the range of the healthy values.
C10_AllRangesDisjoint ==
  (ret.done /\ call.op = "generate_incident_metrics"
     /\ call.scenario \in ScenarioSet)
  => \A doc \in Returned : \A f \in NumericFields : OutsideNormal(f, doc[f])

\* the fields whose incident range is disjoint from the healthy one
DisjointFields(scenario) ==
  {"disk_io", "net_in", "net_out"}
    \cup (IF scenario = "oom_crash" THEN {} ELSE {"cpu_pct"})
    \cup (IF scenario = "cpu_spike" THEN {} ELSE {"mem_pct"})

\* C10 as amended: disk_io, net_in and net_out of incident metrics lie outside
\* the healthy range for every scenario, cpu_pct does for cpu_spike and
\* cascading_failure, mem_pct does for oom_crash and cascading_failure.
C10_RangesDisjoint ==
  (ret.done /\ call.op = "generate_incident_metrics"
     /\ call.scenario \in ScenarioSet)
  => \A doc \in Returned :
       \A f \in DisjointFields(call.scenario) : OutsideNormal(f, doc[f])

\* an oom_crash sample whose cpu_pct is a healthy value while its disk_io
\* is not
C10_Witness ==
  /\ ret.done
  /\ call.op = "generate_incident_metrics"
  /\ call.scenario = "oom_crash"
  /\ \E doc \in Returned :
       /\ ~OutsideNormal("cpu_pct", doc["cpu_pct"])
       /\ OutsideNormal("disk_io", doc["disk_io"])

\* C11: seed_scenario makes exactly one bulk write per scenario and never
\* retries it: in a run that got past the prompt, the scenarios seeded so far
\* followed by those still to seed are the scenarios selected, and there
\* were as many helpers.bulk calls as scenarios seeded, each handing over the
\* whole batch of 438 documents and reporting success + errors = 438.
\* Documents the datastore rejects do not abort the run: a run crashes only
\* before its first bulk write, and once the last selected scenario is
\* seeded the verification step is the step that follows, whatever failed.
C11_OneBulkPerScenario ==
  /\ pc \in {"seeding", "done"} =>
       /\ Plan(choice).raised = ""
       /\ seeded \o todo = Plan(choice).value
       /\ bulk.calls = Len(seeded)
       /\ bulk.calls > 0 =>
            /\ bulk.total = 438
            /\ bulk.success + bulk.errors = bulk.total
            /\ bulk.failed >= bulk.errors
  /\ pc = "crashed" => bulk.calls = 0 /\ seeded = <<>>
  /\ pc = "seeding" /\ todo = <<>> => ENABLED MainVerify
  /\ pc = "done" => todo = <<>> /\ seeded = Plan(choice).value

\* all three scenarios were selected, the datastore rejected documents of
\* an earlier bulk write and none of the last one, and the verification
\* step ran
C11_Witness ==
  /\ pc = "done"
  /\ seeded = Scenarios
  /\ bulk.calls = 3
  /\ bulk.errors = 0
  /\ bulk.failed > 0

\* C12: a run started without the URL and without the cloud identifier, or
\* without the API key, ends in get_es_client with SystemExit: no client is
\* returned and the datastore is left as it was.
C12_MissingConfigIsFatal ==
  [][(pc = "start" /\ (~(env.url \/ env.cloud_id) \/ ~env.api_key)) =>
       (pc' = "exited" /\ client' = "" /\ es' = es)]_vars

\* the scenarios the prompt is said to select for a choice
SelectedFor(c) ==
  IF c \in {"1", "2", "3"} THEN <<Scenarios[IntOf[c]]>> ELSE Scenarios

\* C13: whatever is typed at the prompt, a run that recreated the indices
\* seeds at least one scenario before it ends: 1, 2 or 3 seeds that one
\* scenario, anything else seeds cpu_spike, oom_crash, cascading_failure in
\* that order, and the run does not end unseeded.
C13_PromptAlwaysSeeds ==
  /\ pc = "done" => seeded = SelectedFor(choice)
  /\ pc \in {"done", "crashed"} => seeded # <<>>
  /\ pc = "seeding" => seeded \o todo = SelectedFor(choice)

====
